---- MODULE Spec2Model ----
(***************************************************************************)
(* spotify_local: the synchronous control client (SpotifyLocal, core.py)   *)
(* and its status poller (UpdateStatus, update_status.py).                 *)
(*                                                                         *)
(* The caller's context owns the client object.  Every UpdateStatus object *)
(* is a multiprocessing.Process: start() gives the child its own copy of   *)
(* the object (params, handlers, _should_run); the parent keeps the        *)
(* original.  Worker w is modelled by the parent's attributes              *)
(* (should_run[w]) and by the child's copies (child_should_run[w],         *)
(* handlers[w], wparams[w], wait[w]) and position (wpc[w]).                *)
(***************************************************************************)
EXTENDS Integers, Sequences, FiniteSets, TLC

\* ---------------------------------------------------------------- bounds
MaxWorkers == 2      \* UpdateStatus objects created over a run
MaxHandlers == 2     \* callbacks registered on on_status_change

\* ---------------------------------------------------------------- values
Workers == 1..MaxWorkers
None == 0                          \* self._process is None
Unset == "<unset>"                 \* attribute annotated but never assigned
Callbacks == 1..MaxHandlers        \* a callback is named by its registration rank
Waits == {1}                       \* wait=1, the polling scenario of the test plan
URIs == {"spotify:track:5Yn8"}
NoParam == "-"
NoBody == "<none>"
NoJson == [none |-> TRUE]

\* Response bodies the local server (or anything answering on its port) can
\* send.  A response is [kind |-> "err"] (transport failure) or
\* [kind |-> "body", body |-> b].
TokenBodies == {"{\"t\":\"o1\"}", "<html>"}
CsrfBodies == {"{\"token\":\"c1\"}", "{}"}
\* ... and with the token documents that carry an empty string
AnyTokenBodies == TokenBodies \cup {"{\"t\":\"\"}"}
AnyCsrfBodies == CsrfBodies \cup {"{\"token\":\"\"}"}
StatusBodies == {"{\"playing\":true}", "<html>"}
PauseBodies == {"<html>"}          \* pause() never reads the body

Responses(bodies) == {[kind |-> "err", body |-> NoBody]}
                     \cup {[kind |-> "body", body |-> b] : b \in bodies}

\* requests' Response.json(): the decoded document, or a decode failure
JsonError == [error |-> "JSONDecodeError"]
json(b) ==
  CASE b = "{\"t\":\"o1\"}" -> [t |-> "o1"]
    [] b = "{\"t\":\"\"}" -> [t |-> ""]
    [] b = "{\"token\":\"c1\"}" -> [token |-> "c1"]
    [] b = "{\"token\":\"\"}" -> [token |-> ""]
    [] b = "{\"playing\":true}" -> [playing |-> TRUE]
    [] b = "{\"playing\":false}" -> [playing |-> FALSE]
    [] b = "{}" -> [empty |-> TRUE]
    [] OTHER -> JsonError

\* str(self.wait)
str(n) == CASE n = 1 -> "1" [] n = 2 -> "2" [] n = 60 -> "60" [] OTHER -> "n"

RETURNON == "login,logout,play,pause,error,ap"

VARIABLES
  client,            \* "none" before construction, "ok", or "raised"
  connected,         \* self._connected
  oauth_token,       \* self._oauth_token
  csrf_token,        \* self._csrf_token
  process,           \* self._process: None or the worker it refers to
  on_status_change,  \* self.on_status_change: the parent's callback list
  callerPc,          \* "idle", or "join" while disconnect() waits in join()
  lastCall,          \* the caller's last completed (or blocked) call
  nworkers,          \* UpdateStatus objects created so far
  should_run,        \* parent's copy of _should_run, per worker
  child_should_run,  \* child's copy of _should_run, per worker
  handlers,          \* child's copy of the callback list, per worker
  wparams,           \* child's params mapping, per worker
  wait,              \* self.wait, per worker
  wpc,               \* worker position: none, loop, inflight, dispatch,
                     \* exited (run returned), crashed (run raised)
  wresp,             \* body of the response of the current iteration
  wj,                \* j = r.json() of the current iteration
  invoked,           \* callbacks invoked in the current iteration
  wsession           \* self.session of the UpdateStatus object, per worker

cvars == <<client, connected, oauth_token, csrf_token, process,
           on_status_change, callerPc, lastCall, nworkers, should_run>>
wvars == <<child_should_run, handlers, wparams, wait, wpc, wresp, wj,
           invoked, wsession>>
vars == <<cvars, wvars>>

NoParams == [oauth |-> NoParam, csrf |-> NoParam, returnon |-> NoParam,
             returnafter |-> NoParam]
\* A call of the caller: its name, its result ("ok", the exception raised,
\* or "blocked"), the requests it sent and the responses it received.
NoCall == [op |-> "none", result |-> "none", sent |-> <<>>, recv |-> <<>>]

Call(op, result, sent, recv) ==
  [op |-> op, result |-> result, sent |-> sent, recv |-> recv]
\* requests.Session(): a new session object, named by the object that
\* made it and kept in that object only
Session(owner, id) == <<owner, id>>
NoSession == Session("none", 0)
\* self._session of the client
ClientSession == Session("SpotifyLocal", 0)
\* _request: every request of the caller goes through self._session
Req(url, oauth, csrf, extra) ==
  [session |-> ClientSession, url |-> url, oauth |-> oauth, csrf |-> csrf,
   extra |-> extra]

Init ==
  /\ client = "none"
  /\ connected = FALSE
  /\ oauth_token = Unset
  /\ csrf_token = Unset
  /\ process = None
  /\ on_status_change = <<>>
  /\ callerPc = "idle"
  /\ lastCall = NoCall
  /\ nworkers = 0
  /\ should_run = [w \in Workers |-> TRUE]
  /\ child_should_run = [w \in Workers |-> TRUE]
  /\ handlers = [w \in Workers |-> <<>>]
  /\ wparams = [w \in Workers |-> NoParams]
  /\ wait = [w \in Workers |-> 60]
  /\ wpc = [w \in Workers |-> "none"]
  /\ wresp = [w \in Workers |-> NoBody]
  /\ wj = [w \in Workers |-> NoJson]
  /\ invoked = [w \in Workers |-> <<>>]
  /\ wsession = [w \in Workers |-> NoSession]

\* ------------------------------------------------------------ the client

\* SpotifyLocal.__init__.  __slots__ names "session", not "_session": on an
\* instance without a __dict__ (the class itself) the first assignment
\* raises AttributeError; an instance of a subclass has a __dict__.
init(hasDict) ==
  /\ client = "none"
  /\ IF hasDict
       THEN /\ client' = "ok"
            /\ connected' = FALSE
            /\ process' = None
            /\ on_status_change' = <<>>
       ELSE /\ client' = "raised"
            /\ UNCHANGED <<connected, process, on_status_change>>
  /\ UNCHANGED <<oauth_token, csrf_token, callerPc, lastCall, nworkers,
                 should_run, wvars>>

\* Event.__iadd__: on_status_change += cb
Event_iadd(h, cb) == Append(h, cb)

\* mutant: the running pollers share the parent's callback list
register_shared(cb) ==
  /\ client = "ok" /\ callerPc = "idle"
  /\ Len(on_status_change) < MaxHandlers
  /\ cb = Len(on_status_change) + 1
  /\ on_status_change' = Event_iadd(on_status_change, cb)
  /\ handlers' = [w \in Workers |->
                    IF wpc[w] \in {"loop", "inflight", "dispatch"}
                      THEN Event_iadd(handlers[w], cb) ELSE handlers[w]]
  /\ UNCHANGED <<client, connected, oauth_token, csrf_token, process,
                 callerPc, lastCall, nworkers, should_run, child_should_run,
                 wparams, wait, wpc, wresp, wj, invoked, wsession>>

register(cb) ==
  /\ client = "ok" /\ callerPc = "idle"
  /\ Len(on_status_change) < MaxHandlers
  /\ cb = Len(on_status_change) + 1
  /\ on_status_change' = Event_iadd(on_status_change, cb)
  /\ UNCHANGED <<client, connected, oauth_token, csrf_token, process,
                 callerPc, lastCall, nworkers, should_run, wvars>>

\* mutant: the connection check always passes
check_if_connected_skipped == TRUE

\* _check_if_connected: TRUE when the assertion passes
check_if_connected == connected = TRUE

\* outcome of r.json()[key] on a response
Field(r, key) ==
  IF r.kind = "err" THEN [ok |-> FALSE, val |-> "TransportError"]
  ELSE IF json(r.body) = JsonError THEN [ok |-> FALSE, val |-> "DecodeError"]
  ELSE IF key \notin DOMAIN json(r.body) THEN [ok |-> FALSE, val |-> "KeyError"]
  ELSE [ok |-> TRUE, val |-> json(r.body)[key]]

get_oauth_token(r) == Field(r, "t")
get_csrf_token(r) == Field(r, "token")

TokenReq == Req("/token", NoParam, NoParam, NoParam)
CsrfReq == Req("/simplecsrf/token.json", NoParam, NoParam, NoParam)

\* mutant: connected is set before the CSRF token has been fetched
connect_early(r1, r2) ==
  /\ client = "ok" /\ callerPc = "idle"
  /\ LET o == get_oauth_token(r1)
         c == get_csrf_token(r2)
     IN IF ~o.ok
          THEN /\ lastCall' = Call("connect", o.val, <<TokenReq>>, <<r1>>)
               /\ UNCHANGED <<oauth_token, csrf_token, connected>>
          ELSE /\ oauth_token' = o.val
               /\ connected' = TRUE
               /\ IF ~c.ok
                    THEN /\ lastCall' = Call("connect", c.val,
                                            <<TokenReq, CsrfReq>>, <<r1, r2>>)
                         /\ UNCHANGED csrf_token
                    ELSE /\ csrf_token' = c.val
                         /\ lastCall' = Call("connect", "ok",
                                            <<TokenReq, CsrfReq>>, <<r1, r2>>)
  /\ UNCHANGED <<client, process, on_status_change, callerPc, nworkers,
                 should_run, wvars>>

\* mutant: the two tokens are stored in each other's attribute
connect_swapped(r1, r2) ==
  /\ client = "ok" /\ callerPc = "idle"
  /\ LET o == get_oauth_token(r1)
         c == get_csrf_token(r2)
     IN IF ~o.ok
          THEN /\ lastCall' = Call("connect", o.val, <<TokenReq>>, <<r1>>)
               /\ UNCHANGED <<oauth_token, csrf_token, connected>>
          ELSE IF ~c.ok
              THEN /\ oauth_token' = o.val
                   /\ lastCall' = Call("connect", c.val,
                                      <<TokenReq, CsrfReq>>, <<r1, r2>>)
                   /\ UNCHANGED <<csrf_token, connected>>
              ELSE /\ oauth_token' = c.val
                   /\ csrf_token' = o.val
                   /\ connected' = TRUE
                   /\ lastCall' = Call("connect", "ok",
                                      <<TokenReq, CsrfReq>>, <<r1, r2>>)
  /\ UNCHANGED <<client, process, on_status_change, callerPc, nworkers,
                 should_run, wvars>>

\* connect(): r1 is the response of the token endpoint, r2 that of the CSRF
\* endpoint (asked only when the first step succeeded)
connect(r1, r2) ==
  /\ client = "ok" /\ callerPc = "idle"
  /\ LET o == get_oauth_token(r1)
         c == get_csrf_token(r2)
     IN IF ~o.ok
          THEN /\ lastCall' = Call("connect", o.val, <<TokenReq>>, <<r1>>)
               /\ UNCHANGED <<oauth_token, csrf_token, connected>>
          ELSE IF ~c.ok
              THEN /\ oauth_token' = o.val
                   /\ lastCall' = Call("connect", c.val, <<TokenReq, CsrfReq>>,
                                      <<r1, r2>>)
                   /\ UNCHANGED <<csrf_token, connected>>
              ELSE /\ oauth_token' = o.val
                   /\ csrf_token' = c.val
                   /\ connected' = TRUE
                   /\ lastCall' = Call("connect", "ok", <<TokenReq, CsrfReq>>,
                                      <<r1, r2>>)
  /\ UNCHANGED <<client, process, on_status_change, callerPc, nworkers,
                 should_run, wvars>>

\* mutant: without a process, disconnect() returns and leaves the flag set
disconnect_keep ==
  /\ client = "ok" /\ callerPc = "idle"
  /\ IF process # None
       THEN /\ should_run' = [should_run EXCEPT ![process] = FALSE]
            /\ callerPc' = "join"
            /\ lastCall' = Call("disconnect", "blocked", <<>>, <<>>)
            /\ UNCHANGED connected
       ELSE /\ lastCall' = Call("disconnect", "ok", <<>>, <<>>)
            /\ UNCHANGED <<connected, should_run, callerPc>>
  /\ UNCHANGED <<client, oauth_token, csrf_token, process, on_status_change,
                 nworkers, wvars>>

\* disconnect(), up to the point where it blocks in join() (lines 217-219)
\* or, without a process, to its end (line 220)
disconnect ==
  /\ client = "ok" /\ callerPc = "idle"
  /\ IF process # None
       THEN /\ should_run' = [should_run EXCEPT ![process] = FALSE]
            /\ callerPc' = "join"
            /\ lastCall' = Call("disconnect", "blocked", <<>>, <<>>)
            /\ UNCHANGED connected
       ELSE /\ connected' = FALSE
            /\ lastCall' = Call("disconnect", "ok", <<>>, <<>>)
            /\ UNCHANGED <<should_run, callerPc>>
  /\ UNCHANGED <<client, oauth_token, csrf_token, process, on_status_change,
                 nworkers, wvars>>

\* the child has terminated: run() returned or raised
Terminated(w) == wpc[w] \in {"exited", "crashed"}

\* disconnect(): join() returns once the child has terminated (lines 219-220)
join ==
  /\ client = "ok" /\ callerPc = "join"
  /\ Terminated(process)
  /\ connected' = FALSE
  /\ callerPc' = "idle"
  /\ lastCall' = Call("disconnect", "ok", <<>>, <<>>)
  /\ UNCHANGED <<client, oauth_token, csrf_token, process, on_status_change,
                 nworkers, should_run, wvars>>

\* what a control call leaves alone
ControlUnchanged ==
  UNCHANGED <<client, connected, oauth_token, csrf_token, process,
              on_status_change, callerPc, nworkers, should_run, wvars>>

\* result of a call that decodes the body with r.json()
Decoded(r) ==
  IF r.kind = "err" THEN "TransportError"
  ELSE IF json(r.body) = JsonError THEN "DecodeError" ELSE "ok"

\* result of a call that discards the response
Discarded(r) == IF r.kind = "err" THEN "TransportError" ELSE "ok"

\* mutant: a request that failed in transport is sent a second time
get_current_status_retry(r) ==
  /\ client = "ok" /\ callerPc = "idle"
  /\ IF ~check_if_connected
       THEN lastCall' = Call("get_current_status", "ConnectionError",
                             <<>>, <<>>)
       ELSE LET q == Req("/remote/status.json", oauth_token, csrf_token,
                         NoParam)
            IN IF r.kind = "err"
                 THEN lastCall' = Call("get_current_status",
                                       "TransportError", <<q, q>>, <<r, r>>)
                 ELSE lastCall' = Call("get_current_status", Decoded(r),
                                       <<q>>, <<r>>)
  /\ ControlUnchanged

get_current_status(r) ==
  /\ client = "ok" /\ callerPc = "idle"
  /\ IF ~check_if_connected
       THEN lastCall' = Call("get_current_status", "ConnectionError", <<>>, <<>>)
       ELSE lastCall' = Call("get_current_status", Decoded(r),
              <<Req("/remote/status.json", oauth_token, csrf_token, NoParam)>>,
              <<r>>)
  /\ ControlUnchanged

pause(p, r) ==
  /\ client = "ok" /\ callerPc = "idle"
  /\ IF ~check_if_connected
       THEN lastCall' = Call("pause", "ConnectionError", <<>>, <<>>)
       ELSE lastCall' = Call("pause", Discarded(r),
              <<Req("/remote/pause.json", oauth_token, csrf_token,
                    IF p THEN "true" ELSE "false")>>, <<r>>)
  /\ ControlUnchanged

\* mutant: unpause() calls pause() with its default argument
unpause_default(r) == pause(TRUE, r)

unpause(r) == pause(FALSE, r)

playURI(uri, r) ==
  /\ client = "ok" /\ callerPc = "idle"
  /\ IF ~check_if_connected
       THEN lastCall' = Call("playURI", "ConnectionError", <<>>, <<>>)
       ELSE lastCall' = Call("playURI", Decoded(r),
              <<Req("/remote/play.json", oauth_token, csrf_token, uri)>>,
              <<r>>)
  /\ ControlUnchanged

\* UpdateStatus.__init__: the attributes of a new process object
UpdateStatus(h, params, wt) ==
  [handlers |-> h, params |-> params, wait |-> wt, should_run |-> TRUE,
   session |-> "UpdateStatus"]

\* mutant: run() is called instead of start(): the loop runs in the caller
listen_for_events_run(wt) ==
  /\ client = "ok" /\ callerPc = "idle"
  /\ IF ~check_if_connected
       THEN /\ lastCall' = Call("listen_for_events", "ConnectionError",
                               <<>>, <<>>)
            /\ UNCHANGED <<process, nworkers, should_run, wvars, callerPc>>
       ELSE /\ nworkers < MaxWorkers
            /\ LET w == nworkers + 1
                   p == UpdateStatus(on_status_change,
                          [NoParams EXCEPT !.oauth = oauth_token,
                                           !.csrf = csrf_token], wt)
               IN /\ process' = w
                  /\ nworkers' = w
                  /\ should_run' = [should_run EXCEPT ![w] = p.should_run]
                  /\ child_should_run' =
                       [child_should_run EXCEPT ![w] = p.should_run]
                  /\ handlers' = [handlers EXCEPT ![w] = p.handlers]
                  /\ wparams' = [wparams EXCEPT ![w] = p.params]
                  /\ wait' = [wait EXCEPT ![w] = p.wait]
                  /\ wpc' = [wpc EXCEPT ![w] = "loop"]
                  /\ wsession' = [wsession EXCEPT
                                    ![w] = Session(p.session, w)]
                  /\ UNCHANGED <<wresp, wj, invoked>>
            /\ callerPc' = "run"
            /\ lastCall' = Call("listen_for_events", "blocked", <<>>, <<>>)
  /\ UNCHANGED <<client, connected, oauth_token, csrf_token,
                 on_status_change>>

\* listen_for_events(wait): builds the UpdateStatus object w and starts it;
\* start() hands the child a copy of the object and returns
listen_for_events(wt) ==
  /\ client = "ok" /\ callerPc = "idle"
  /\ IF ~check_if_connected
       THEN /\ lastCall' = Call("listen_for_events", "ConnectionError", <<>>, <<>>)
            /\ UNCHANGED <<process, nworkers, should_run, wvars>>
       ELSE /\ nworkers < MaxWorkers
            /\ LET w == nworkers + 1
                   p == UpdateStatus(on_status_change,
                          [NoParams EXCEPT !.oauth = oauth_token,
                                           !.csrf = csrf_token], wt)
               IN /\ process' = w
                  /\ nworkers' = w
                  /\ should_run' = [should_run EXCEPT ![w] = p.should_run]
                  /\ child_should_run' =
                       [child_should_run EXCEPT ![w] = p.should_run]
                  /\ handlers' = [handlers EXCEPT ![w] = p.handlers]
                  /\ wparams' = [wparams EXCEPT ![w] = p.params]
                  /\ wait' = [wait EXCEPT ![w] = p.wait]
                  /\ wpc' = [wpc EXCEPT ![w] = "loop"]
                  /\ wsession' = [wsession EXCEPT
                                    ![w] = Session(p.session, w)]
                  /\ UNCHANGED <<wresp, wj, invoked>>
            /\ lastCall' = Call("listen_for_events", "ok", <<>>, <<>>)
  /\ UNCHANGED <<client, connected, oauth_token, csrf_token,
                 on_status_change, callerPc>>

\* ------------------------------------------------------------ the poller

\* the should_run property, read in the child
should_run_get(w) == child_should_run[w]

\* the child's memory is gone once it has terminated
Release(w) ==
  /\ handlers' = [handlers EXCEPT ![w] = <<>>]
  /\ wparams' = [wparams EXCEPT ![w] = NoParams]
  /\ wait' = [wait EXCEPT ![w] = 60]
  /\ wresp' = [wresp EXCEPT ![w] = NoBody]
  /\ wj' = [wj EXCEPT ![w] = NoJson]
  /\ invoked' = [invoked EXCEPT ![w] = <<>>]
  /\ wsession' = [wsession EXCEPT ![w] = NoSession]

\* mutant: the request carries the default wait, not the wait given
run_loop_default(w) ==
  /\ wpc[w] = "loop"
  /\ IF should_run_get(w)
       THEN /\ wparams' = [wparams EXCEPT
                             ![w].returnon = RETURNON,
                             ![w].returnafter = str(60)]
            /\ wpc' = [wpc EXCEPT ![w] = "inflight"]
            /\ wresp' = [wresp EXCEPT ![w] = NoBody]
            /\ wj' = [wj EXCEPT ![w] = NoJson]
            /\ invoked' = [invoked EXCEPT ![w] = <<>>]
            /\ UNCHANGED <<handlers, wait, wsession>>
       ELSE /\ wpc' = [wpc EXCEPT ![w] = "exited"]
            /\ Release(w)
  /\ UNCHANGED <<cvars, child_should_run>>

\* run(): the while test and, when it passes, the request of one iteration
run_loop(w) ==
  /\ wpc[w] = "loop"
  /\ IF should_run_get(w)
       THEN /\ wparams' = [wparams EXCEPT
                             ![w].returnon = RETURNON,
                             ![w].returnafter = str(wait[w])]
            /\ wpc' = [wpc EXCEPT ![w] = "inflight"]
            /\ wresp' = [wresp EXCEPT ![w] = NoBody]
            /\ wj' = [wj EXCEPT ![w] = NoJson]
            /\ invoked' = [invoked EXCEPT ![w] = <<>>]
            /\ UNCHANGED <<handlers, wait, wsession>>
       ELSE /\ wpc' = [wpc EXCEPT ![w] = "exited"]
            /\ Release(w)
  /\ UNCHANGED <<cvars, child_should_run>>

\* mutant: a failed request or an undecodable body is swallowed and the
\* loop goes on
run_receive_swallow(w, r) ==
  /\ wpc[w] = "inflight"
  /\ IF Decoded(r) # "ok"
       THEN /\ wpc' = [wpc EXCEPT ![w] = "loop"]
            /\ UNCHANGED <<handlers, wparams, wait, wresp, wj, invoked,
                             wsession>>
       ELSE /\ wresp' = [wresp EXCEPT ![w] = r.body]
            /\ wj' = [wj EXCEPT ![w] = json(r.body)]
            /\ wpc' = [wpc EXCEPT ![w] = "dispatch"]
            /\ UNCHANGED <<handlers, wparams, wait, invoked, wsession>>
  /\ UNCHANGED <<cvars, child_should_run>>

\* mutant: the response is decoded but never handed to the handlers
run_receive_nodispatch(w, r) ==
  /\ wpc[w] = "inflight"
  /\ IF Decoded(r) # "ok"
       THEN /\ wpc' = [wpc EXCEPT ![w] = "crashed"]
            /\ Release(w)
       ELSE /\ wresp' = [wresp EXCEPT ![w] = r.body]
            /\ wj' = [wj EXCEPT ![w] = json(r.body)]
            /\ wpc' = [wpc EXCEPT ![w] = "loop"]
            /\ UNCHANGED <<handlers, wparams, wait, invoked, wsession>>
  /\ UNCHANGED <<cvars, child_should_run>>

\* run(): the response r of the long-poll arrives and is decoded
run_receive(w, r) ==
  /\ wpc[w] = "inflight"
  /\ IF Decoded(r) # "ok"
       THEN /\ wpc' = [wpc EXCEPT ![w] = "crashed"]
            /\ Release(w)
       ELSE /\ wresp' = [wresp EXCEPT ![w] = r.body]
            /\ wj' = [wj EXCEPT ![w] = json(r.body)]
            /\ wpc' = [wpc EXCEPT ![w] = "dispatch"]
            /\ UNCHANGED <<handlers, wparams, wait, invoked, wsession>>
  /\ UNCHANGED <<cvars, child_should_run>>

\* Event.__call__: the callback invoked after k callbacks have been
Event_call(h, k) == h[k + 1]

\* mutant: the handlers are called with the params mapping, not with j
run_dispatch_params(w) ==
  /\ wpc[w] = "dispatch"
  /\ IF Len(invoked[w]) < Len(handlers[w])
       THEN /\ invoked' = [invoked EXCEPT ![w] =
                 Append(@, <<Event_call(handlers[w], Len(@)), wparams[w]>>)]
            /\ UNCHANGED wpc
       ELSE /\ wpc' = [wpc EXCEPT ![w] = "loop"]
            /\ invoked' = [invoked EXCEPT ![w] = <<>>]
  /\ UNCHANGED <<cvars, child_should_run, handlers, wparams, wait, wresp, wj,
                 wsession>>

\* mutant: the handlers are called a second time with the same response
run_dispatch_twice(w) ==
  /\ wpc[w] = "dispatch"
  /\ IF Len(invoked[w]) < 2 * Len(handlers[w])
       THEN /\ invoked' = [invoked EXCEPT ![w] =
                 Append(@, <<Event_call(handlers[w],
                                        Len(@) % Len(handlers[w])), wj[w]>>)]
            /\ UNCHANGED wpc
       ELSE /\ wpc' = [wpc EXCEPT ![w] = "loop"]
            /\ invoked' = [invoked EXCEPT ![w] = <<>>]
  /\ UNCHANGED <<cvars, child_should_run, handlers, wparams, wait, wresp, wj,
                 wsession>>

\* run(): self.handlers(j), one callback at a time, then back to the test
run_dispatch(w) ==
  /\ wpc[w] = "dispatch"
  /\ IF Len(invoked[w]) < Len(handlers[w])
       THEN /\ invoked' = [invoked EXCEPT ![w] =
                 Append(@, <<Event_call(handlers[w], Len(@)), wj[w]>>)]
            /\ UNCHANGED wpc
       ELSE /\ wpc' = [wpc EXCEPT ![w] = "loop"]
            /\ invoked' = [invoked EXCEPT ![w] = <<>>]
  /\ UNCHANGED <<cvars, child_should_run, handlers, wparams, wait, wresp, wj,
                 wsession>>

Next ==
  \/ \E d \in BOOLEAN : init(d)
  \/ \E cb \in Callbacks : register(cb)
  \/ \E r1 \in Responses(TokenBodies), r2 \in Responses(CsrfBodies) :
       connect(r1, r2)
  \/ disconnect
  \/ join
  \/ \E r \in Responses(StatusBodies) : get_current_status(r)
  \/ \E p \in BOOLEAN, r \in Responses(PauseBodies) : pause(p, r)
  \/ \E r \in Responses(PauseBodies) : unpause(r)
  \/ \E u \in URIs, r \in Responses(StatusBodies) : playURI(u, r)
  \/ \E wt \in Waits : listen_for_events(wt)
  \/ \E w \in Workers : run_loop(w)
  \/ \E w \in Workers, r \in Responses(StatusBodies) : run_receive(w, r)
  \/ \E w \in Workers : run_dispatch(w)

Spec == Init /\ [][Next]_vars

\* The handshake and the control calls of a client that starts no poller,
\* against a server whose token documents may carry any string.
HandshakeNext ==
  \/ \E d \in BOOLEAN : init(d)
  \/ \E cb \in Callbacks : register(cb)
  \/ \E r1 \in Responses(AnyTokenBodies), r2 \in Responses(AnyCsrfBodies) :
       connect(r1, r2)
  \/ disconnect
  \/ \E r \in Responses(StatusBodies) : get_current_status(r)
  \/ \E p \in BOOLEAN, r \in Responses(PauseBodies) : pause(p, r)
  \/ \E r \in Responses(PauseBodies) : unpause(r)
  \/ \E u \in URIs, r \in Responses(StatusBodies) : playURI(u, r)

HandshakeSpec == Init /\ [][HandshakeNext]_vars
\* The scheduler runs every live process, every long-poll is answered, and a
\* join() whose child has terminated returns.
FairSpec ==
  /\ Spec
  /\ \A w \in Workers :
       /\ WF_vars(run_loop(w))
       /\ WF_vars(\E r \in Responses(StatusBodies) : run_receive(w, r))
       /\ WF_vars(run_dispatch(w))
  /\ WF_vars(join)

\* ---------------------------------------------------------------- claims

Alive(w) == wpc[w] \in {"loop", "inflight", "dispatch"}
ControlOps == {"get_current_status", "pause", "playURI", "listen_for_events"}

ControlStep ==
  \/ \E r \in Responses(StatusBodies) : get_current_status(r)
  \/ \E p \in BOOLEAN, r \in Responses(PauseBodies) : pause(p, r)
  \/ \E r \in Responses(PauseBodies) : unpause(r)
  \/ \E u \in URIs, r \in Responses(StatusBodies) : playURI(u, r)
  \/ \E wt \in Waits : listen_for_events(wt)

\* C1: a control call (get_current_status, pause, unpause, playURI,
\* listen_for_events) made while connected is false raises ConnectionError,
\* sends no HTTP request and starts no poller.
C1_NotConnectedFails ==
  [][(ControlStep /\ ~connected) =>
       /\ lastCall'.op \in ControlOps
       /\ lastCall'.result = "ConnectionError"
       /\ lastCall'.sent = <<>>
       /\ nworkers' = nworkers
       /\ wpc' = wpc
       /\ process' = process]_vars

\* a control call has just failed on a client whose last connect() failed
\* at the CSRF step
C1_Witness ==
  /\ lastCall.op = "listen_for_events"
  /\ lastCall.result = "ConnectionError"
  /\ oauth_token # Unset /\ csrf_token = Unset

\* C2: a disconnect() that waits for a running poller eventually returns,
\* with connected false.
C2_DisconnectReturns ==
  (callerPc = "join") ~> (callerPc = "idle" /\ ~connected)

\* the callbacks, with their argument, that a complete dispatch of worker w
\* makes
Expected(w) ==
  [i \in 1..Len(handlers[w]) |-> <<handlers[w][i], json(wresp[w])>>]

\* C3: an iteration that received a response invokes every callback the
\* poller was started with exactly once, in registration order, each with
\* the decoded response.
C3_DispatchAllInOrder ==
  /\ [](\A w \in Workers :
         wpc[w] = "dispatch" =>
           /\ Len(invoked[w]) <= Len(handlers[w])
           /\ invoked[w] = SubSeq(Expected(w), 1, Len(invoked[w])))
  /\ [][\A w \in Workers :
          (wpc[w] = "dispatch" /\ wpc'[w] # "dispatch") =>
            /\ wpc'[w] = "loop"
            /\ invoked[w] = Expected(w)]_vars

\* a dispatch to two callbacks is complete
C3_Witness ==
  \E w \in Workers :
    /\ wpc[w] = "dispatch"
    /\ Len(handlers[w]) = 2
    /\ invoked[w] = <<<<1, [playing |-> TRUE]>>, <<2, [playing |-> TRUE]>>>>

\* C4: with the running flag set to false, a worker between its request
\* and the end of its dispatch leaves that stretch only by completing the
\* dispatch (or by the request failing); it never stops in between.
C4_StopNotMidIteration ==
  [][\A w \in Workers :
       (~should_run[w] /\ wpc[w] \in {"inflight", "dispatch"}
          /\ wpc'[w] \notin {"inflight", "dispatch"}) =>
         \/ /\ wpc[w] = "dispatch" /\ wpc'[w] = "loop"
            /\ invoked[w] = Expected(w)
         \/ wpc[w] = "inflight" /\ wpc'[w] = "crashed"]_vars

\* the flag is false, disconnect() waits, and the worker has run all its
\* callbacks
C4_Witness ==
  \E w \in Workers :
    /\ ~should_run[w] /\ callerPc = "join"
    /\ wpc[w] = "dispatch"
    /\ Len(handlers[w]) > 0 /\ Len(invoked[w]) = Len(handlers[w])

\* C5: once the client has set the running flag to false, the worker issues
\* no new long-poll request.
C5_NoRequestAfterStop ==
  [][\A w \in Workers :
       (~should_run[w] /\ wpc[w] = "loop") => wpc'[w] # "inflight"]_vars

\* C6: connected implies that both tokens have been stored, and only a
\* successful connect() makes connected true.
C6_ConnectedHasTokens ==
  /\ [](connected => oauth_token # Unset /\ csrf_token # Unset)
  /\ [][(~connected /\ connected') =>
          /\ lastCall'.op = "connect" /\ lastCall'.result = "ok"
          /\ oauth_token' # Unset /\ csrf_token' # Unset]_vars

C6_Witness ==
  connected /\ oauth_token = "o1" /\ csrf_token = "c1"

ConnectSucceeded == lastCall.op = "connect" /\ lastCall.result = "ok"

\* C7 (as claimed): after a successful connect() the tokens are the values
\* the two endpoints returned, and both are non-empty.
C7_TokensNonEmpty ==
  ConnectSucceeded =>
    /\ oauth_token = json(lastCall.recv[1].body).t
    /\ csrf_token = json(lastCall.recv[2].body).token
    /\ oauth_token # "" /\ csrf_token # ""

\* C7 (amended): after a successful connect() the tokens are the values the
\* two endpoints returned (field "t", field "token"), whatever they are.
C7_TokensFromEndpoints ==
  ConnectSucceeded =>
    /\ connected
    /\ oauth_token = json(lastCall.recv[1].body).t
    /\ csrf_token = json(lastCall.recv[2].body).token

C7_Witness ==
  ConnectSucceeded /\ oauth_token = "o1" /\ csrf_token = "c1"

\* C8: a transport error or an undecodable body ends the worker: none of
\* the iteration's callbacks has run, the flags and the client are as they
\* were, no worker is created, and the worker never moves again.
C8_FailureEndsWorker ==
  /\ [][\A w \in Workers : \A r \in Responses(StatusBodies) :
          (run_receive(w, r) /\ Decoded(r) # "ok") =>
            /\ wpc'[w] = "crashed"
            /\ invoked[w] = <<>> /\ invoked'[w] = <<>>
            /\ child_should_run'[w] = TRUE
            /\ should_run' = should_run
            /\ connected' = connected
            /\ nworkers' = nworkers /\ process' = process]_vars
  /\ [][\A w \in Workers : wpc[w] = "crashed" => wpc'[w] = "crashed"]_vars

\* a worker has failed while its client stays connected, flag still true
C8_Witness ==
  \E w \in Workers : wpc[w] = "crashed" /\ should_run[w] /\ connected

\* C9: at most one poller worker of the client is alive.
C9_AtMostOnePoller ==
  Cardinality({w \in Workers : Alive(w)}) <= 1

\* C10: listen_for_events() returns at once, before any response, leaving
\* the caller free; and whenever the caller is free and connected, each
\* control call can be made, whatever the pollers are waiting for.
C10_PollerNeverBlocksCaller ==
  /\ [][(\E wt \in Waits : listen_for_events(wt)) =>
          /\ callerPc' = "idle"
          /\ lastCall'.result \in {"ok", "ConnectionError"}
          /\ nworkers' # nworkers =>
                /\ wpc'[nworkers'] = "loop"
                /\ wresp'[nworkers'] = NoBody]_vars
  /\ []((client = "ok" /\ callerPc # "join"
           /\ \E w \in Workers : wpc[w] = "inflight") =>
          /\ ENABLED (\E r \in Responses(StatusBodies) :
                        get_current_status(r))
          /\ ENABLED (\E p \in BOOLEAN, r \in Responses(PauseBodies) :
                        pause(p, r))
          /\ ENABLED (\E r \in Responses(PauseBodies) : unpause(r))
          /\ ENABLED (\E u \in URIs, r \in Responses(StatusBodies) :
                        playURI(u, r)))

\* a control call has completed while a poller waits for its response
C10_Witness ==
  /\ lastCall.op = "pause" /\ lastCall.result = "ok"
  /\ \E w \in Workers : wpc[w] = "inflight"

PauseReq(flag) ==
  Req("/remote/pause.json", oauth_token, csrf_token, flag)

\* C11: on a connected client pause(true) sends pause=true, pause(false)
\* and unpause() send pause=false, each with the stored oauth and csrf
\* tokens; an unpause() step is a pause(false) step and conversely.
C11_PauseParameter ==
  [][connected =>
       /\ \A r \in Responses(PauseBodies) :
            /\ pause(TRUE, r) =>
                 /\ lastCall'.sent = <<PauseReq("true")>>
                 /\ lastCall'.result = Discarded(r)
            /\ pause(FALSE, r) =>
                 /\ lastCall'.sent = <<PauseReq("false")>>
                 /\ lastCall'.result = Discarded(r)
            /\ unpause(r) =>
                 /\ lastCall'.sent = <<PauseReq("false")>>
                 /\ lastCall'.result = Discarded(r)
            /\ unpause(r) <=> pause(FALSE, r)]_vars

\* a pause=false request with the handshake's tokens has been answered
C11_Witness ==
  /\ connected
  /\ lastCall.op = "pause" /\ lastCall.result = "ok"
  /\ lastCall.sent = <<Req("/remote/pause.json", "o1", "c1", "false")>>

\* a step of get_current_status, pause, unpause or playURI
RequestCallStep ==
  \/ \E r \in Responses(StatusBodies) : get_current_status(r)
  \/ \E p \in BOOLEAN, r \in Responses(PauseBodies) : pause(p, r)
  \/ \E r \in Responses(PauseBodies) : unpause(r)
  \/ \E u \in URIs, r \in Responses(StatusBodies) : playURI(u, r)

\* C12: on a connected client each get_current_status, pause, unpause or
\* playURI call sends exactly one request and receives at most that one
\* response, also when the call fails: nothing is retried.
C12_OneRequestPerCall ==
  [][(connected /\ RequestCallStep) =>
       /\ Len(lastCall'.sent) = 1
       /\ Len(lastCall'.recv) = 1
       /\ lastCall'.result \in {"ok", "TransportError", "DecodeError"}]_vars

\* a control call has failed in transport after its single request
C12_Witness ==
  /\ connected
  /\ lastCall.op = "get_current_status"
  /\ lastCall.result = "TransportError"
  /\ Len(lastCall.sent) = 1

\* a connect() step whose handshake failed at either step
ConnectFailedStep ==
  /\ \E r1 \in Responses(AnyTokenBodies), r2 \in Responses(AnyCsrfBodies) :
       connect(r1, r2)
  /\ lastCall'.result # "ok"

\* C13: a connect() that fails at the token step or at the CSRF step leaves
\* oauth_token, csrf_token and connected as they were.
C13_FailedConnectChangesNothing ==
  [][ConnectFailedStep =>
       UNCHANGED <<oauth_token, csrf_token, connected>>]_vars

\* C14: a worker hands every decodable response, whatever it says, to its
\* handlers once, and one after the other: a response starts a dispatch
\* with the decoded body, callbacks run only during that dispatch and at
\* most once each, and the next request is sent only after the dispatch
\* has run every callback.
C14_SequentialDispatch ==
  /\ [][\A w \in Workers : \A r \in Responses(StatusBodies) :
          (run_receive(w, r) /\ Decoded(r) = "ok") =>
            /\ wpc'[w] = "dispatch"
            /\ wresp'[w] = r.body /\ wj'[w] = json(r.body)
            /\ invoked'[w] = <<>>]_vars
  /\ [][\A w \in Workers :
          (wpc[w] # "inflight" /\ wpc'[w] = "inflight") =>
            /\ wpc[w] = "loop"
            /\ invoked[w] = <<>> /\ invoked'[w] = <<>>]_vars
  /\ [][\A w \in Workers :
          (wpc[w] = "dispatch" /\ wpc'[w] # "dispatch") =>
            /\ wpc'[w] = "loop"
            /\ Len(invoked[w]) = Len(handlers[w])]_vars
  /\ [](\A w \in Workers :
         /\ Len(invoked[w]) <= Len(handlers[w])
         /\ invoked[w] # <<>> => wpc[w] = "dispatch")

\* a worker is in the middle of a dispatch: one of its two callbacks has run
C14_Witness ==
  \E w \in Workers :
    /\ wpc[w] = "dispatch"
    /\ Len(handlers[w]) = 2 /\ Len(invoked[w]) = 1
    /\ wparams[w].returnon = RETURNON

\* C15: every long-poll request of a poller carries the two tokens the
\* client held when listen_for_events created the poller, the fixed
\* returnon list and the wait given to listen_for_events as returnafter,
\* and goes out on the poller's own session, never on the caller's.
ListenStarted(wt) ==
  /\ lastCall'.op = "listen_for_events" /\ nworkers' = nworkers + 1
  /\ listen_for_events(wt)
C15_LongPollRequest ==
  /\ [][\A wt \in Waits : ListenStarted(wt) =>
            /\ wparams'[nworkers'].oauth = oauth_token
            /\ wparams'[nworkers'].csrf = csrf_token
            /\ wait'[nworkers'] = wt
            /\ wsession'[nworkers'] = Session("UpdateStatus", nworkers')]_vars
  /\ [][\A w \in Workers : (Alive(w) /\ Alive(w)') =>
            /\ wparams'[w].oauth = wparams[w].oauth
            /\ wparams'[w].csrf = wparams[w].csrf
            /\ wait'[w] = wait[w]
            /\ wsession'[w] = wsession[w]]_vars
  /\ [](\A w \in Workers : wpc[w] = "inflight" =>
            /\ wparams[w].returnon = RETURNON
            /\ wparams[w].returnafter = str(wait[w])
            /\ wsession[w] = Session("UpdateStatus", w)
            /\ wsession[w] # ClientSession
            /\ \A v \in Workers : v # w => wsession[v] # wsession[w]
            /\ \A i \in 1..Len(lastCall.sent) :
                  lastCall.sent[i].session # wsession[w])
C15_Witness ==
  \E w \in Workers :
    /\ wpc[w] = "inflight"
    /\ wparams[w].oauth = "o1" /\ wparams[w].csrf = "c1"
    /\ wparams[w].returnafter = str(1)
    /\ lastCall.op = "get_current_status" /\ lastCall.sent # <<>>

\* C16: constructing a client succeeds and yields a client that is not
\* connected, has no poller handle and an empty callback collection, on
\* which connect() can be called (connect needs client = "ok" and an idle
\* caller).
C16_ConstructionSucceeds ==
  [][\A d \in BOOLEAN : init(d) =>
        /\ client' = "ok"
        /\ ~connected' /\ process' = None /\ on_status_change' = <<>>
        /\ callerPc' = "idle"]_vars

\* C17: after disconnect() has returned, no poller started by this client
\* is still running, also when listen_for_events() was called more than
\* once before.
C17_NoPollerAfterDisconnect ==
  (lastCall.op = "disconnect" /\ lastCall.result = "ok") =>
    \A w \in Workers : ~Alive(w)

\* C18: after disconnect() has returned, connected is false, and every
\* control call fails with the not-connected error, sending nothing and
\* starting nothing, until a connect() succeeds; with or without a poller.
DisconnectReturned == lastCall.op = "disconnect" /\ lastCall.result = "ok"
C18_DisconnectedUntilConnect ==
  /\ [](DisconnectReturned => (~connected /\ callerPc = "idle"))
  /\ [][(~connected /\ connected') =>
          (lastCall'.op = "connect" /\ lastCall'.result = "ok")]_vars
  /\ [][(~connected /\ lastCall' # lastCall /\ lastCall'.op \in ControlOps) =>
          /\ lastCall'.result = "ConnectionError"
          /\ lastCall'.sent = <<>>
          /\ nworkers' = nworkers /\ ~connected']_vars
\* a control call has failed after a disconnect() that joined a poller
C18_Witness ==
  /\ lastCall.op \in ControlOps /\ lastCall.result = "ConnectionError"
  /\ ~connected /\ nworkers > 0 /\ process # None

\* C19: a running poller dispatches to the callback collection as it was
\* when listen_for_events() started it; a callback registered afterwards
\* is never invoked by that poller.
Registered(h) == {h[i] : i \in 1..Len(h)}
C19_HandlersFixedAtListen ==
  /\ [][\A wt \in Waits : ListenStarted(wt) =>
            handlers'[nworkers'] = on_status_change]_vars
  /\ [][on_status_change' # on_status_change =>
            (handlers' = handlers /\ invoked' = invoked)]_vars
  /\ [][\A w \in Workers : (Alive(w) /\ Alive(w)') =>
            handlers'[w] = handlers[w]]_vars
  /\ [](\A w \in Workers : \A i \in 1..Len(invoked[w]) :
            invoked[w][i][1] \in Registered(handlers[w]))
\* a poller started with one callback has completed a dispatch after a
\* second callback was registered, and invoked the first only
C19_Witness ==
  \E w \in Workers :
    /\ wpc[w] = "dispatch"
    /\ Len(handlers[w]) = 1 /\ Len(on_status_change) = 2
    /\ Len(invoked[w]) = 1 /\ invoked[w][1][1] = 1
====
